---- MODULE Spec2Model ----
(***************************************************************************)
(* A model of DiceUtils.py: the Dice type (validated count/faces, lazily   *)
(* cached statistics, rolls, stochastic operators) and the DiceUtils       *)
(* helpers (exploding rolls, percentile roll).                             *)
(*                                                                         *)
(* Python values are records [type, v]; a float k/2 is carried by its      *)
(* numerator (stats_mean and stats_median are stored as TWICE their value, *)
(* since both come from a division by two).  A missing instance attribute  *)
(* is the value Unset; reading it raises AttributeError.                   *)
(***************************************************************************)
EXTENDS Integers, Sequences, FiniteSets, TLC

VARIABLES count, faces, is_stats_stale, stats, last, gen, rd, wr

vars == <<count, faces, is_stats_stale, stats, last, gen, rd, wr>>

(* ---- bounds ---- *)
MaxFaces == 6
MaxCount == 2
MaxExplosions == 3
MaxOperand == 2
MaxSharedCount == 2
MaxSharedFaces == 2

(* ---- Python values ---- *)
PyInt(n) == [type |-> "int", v |-> n]
PyStr == [type |-> "str", v |-> 0]
PyNone == [type |-> "NoneType", v |-> 0]
PyFloat(twice) == [type |-> "float", v |-> twice]
PySelf == [type |-> "Dice", v |-> 0]

Unset == -1

(* ======================================================================= *)
(* Statistics: Dice._update_stats                                          *)
(* ======================================================================= *)

RECURSIVE SumFreq(_, _, _)
SumFreq(counts, total, S) ==
    IF S = {} THEN 0
    ELSE LET face == CHOOSE x \in S : TRUE
         IN  counts[total - face] + SumFreq(counts, total, S \ {face})

(* one pass of the loop body of lines 87-91: new_counts[total+face] += freq *)
ConvolveStep(counts, f) ==
    [t \in {total + face : total \in DOMAIN counts, face \in 1..f} |->
        SumFreq(counts, t, {face \in 1..f : (t - face) \in DOMAIN counts})]

RECURSIVE Convolve(_, _, _)
Convolve(counts, f, times) ==
    IF times <= 0 THEN counts
    ELSE Convolve(ConvolveStep(counts, f), f, times - 1)

(* lines 85-91: Counter(range(1, faces+1)) convolved count-1 times *)
Distribution(c, f) == Convolve([t \in 1..f |-> 1], f, c - 1)

(* sorted(counts.items()): the (total, freq) pairs in ascending total order *)
RECURSIVE SortedItems(_, _)
SortedItems(counts, S) ==
    IF S = {} THEN <<>>
    ELSE LET m == CHOOSE x \in S : \A y \in S : x <= y
         IN  <<<<m, counts[m]>>>> \o SortedItems(counts, S \ {m})

(* itertools.accumulate: running sums *)
RECURSIVE Accumulate(_)
Accumulate(freqs) ==
    IF Len(freqs) = 0 THEN <<>>
    ELSE LET n == Len(freqs)
             front == Accumulate(SubSeq(freqs, 1, n - 1))
         IN  Append(front, (IF n = 1 THEN 0 ELSE front[n - 1]) + freqs[n])

(* a wrong bisect: bisect_left instead of bisect_right *)
RECURSIVE bisect_left(_, _, _, _)
bisect_left(a, x, lo, hi) ==
    IF lo < hi
    THEN LET mid == (lo + hi) \div 2
         IN  IF a[mid + 1] < x THEN bisect_left(a, x, mid + 1, hi)
                               ELSE bisect_left(a, x, lo, mid)
    ELSE lo

(* bisect.bisect_right(a, x, lo, hi) on a 0-based list (a[mid+1] is a[mid]) *)
RECURSIVE bisect_right(_, _, _, _)
bisect_right(a, x, lo, hi) ==
    IF lo < hi
    THEN LET mid == (lo + hi) \div 2
         IN  IF x < a[mid + 1] THEN bisect_right(a, x, lo, mid)
                               ELSE bisect_right(a, x, mid + 1, hi)
    ELSE lo

(* lines 100-102: nth(n) over rolls and cum *)
nth(rolls, cum, n) ==
    LET idx == bisect_right(cum, n, 0, Len(cum))
    IN  rolls[idx + 1][1]

(* lines 95-107; the result is TWICE the median (the even case divides by 2) *)
Median2(counts) ==
    LET rolls == SortedItems(counts, DOMAIN counts)
        freqs == [i \in 1..Len(rolls) |-> rolls[i][2]]
        cum   == Accumulate(freqs)
        total == cum[Len(cum)]
    IN  IF total % 2 = 1
        THEN 2 * nth(rolls, cum, total \div 2)
        ELSE nth(rolls, cum, total \div 2 - 1) + nth(rolls, cum, total \div 2)

(* line 93: counts.most_common(1)[0][0]; the first key, in insertion        *)
(* (ascending total) order, that has the highest frequency                  *)
Mode(counts) ==
    CHOOSE t \in DOMAIN counts :
        /\ \A u \in DOMAIN counts : counts[u] <= counts[t]
        /\ \A u \in DOMAIN counts : counts[u] = counts[t] => t <= u

NoStats ==
    [stats_min |-> Unset, stats_max |-> Unset, stats_range |-> Unset,
     stats_mid |-> Unset, stats_mean |-> Unset, stats_median |-> Unset,
     stats_mode |-> Unset]

(* lines 79-107: every cached attribute, from the count and faces given *)
ComputeStats(c, f) ==
    LET smin == c
        smax == f * c
        counts == Distribution(c, f)
    IN  [stats_min |-> smin, stats_max |-> smax, stats_range |-> smax - smin,
         stats_mid |-> (smin + smax) \div 2, stats_mean |-> smin + smax,
         stats_median |-> Median2(counts), stats_mode |-> Mode(counts)]

StatNames ==
    {"stats_min", "stats_max", "stats_range", "stats_midpoint", "stats_mean",
     "stats_median", "stats_mode"}

(* the attribute each stats_* property returns (lines 119-179) *)
StatField(st, name) ==
    CASE name = "stats_min"      -> st.stats_min
      [] name = "stats_max"      -> st.stats_max
      [] name = "stats_range"    -> st.stats_range
      [] name = "stats_midpoint" -> st.stats_mid
      [] name = "stats_mean"     -> st.stats_mean
      [] name = "stats_median"   -> st.stats_median
      [] name = "stats_mode"     -> st.stats_mode

(* ======================================================================= *)
(* The result of the call in progress, as its caller sees it               *)
(* ======================================================================= *)

Idle == [op |-> "none", arg |-> PyNone, kind |-> "idle", val |-> 0, den |-> 1, seq |-> <<>>]

(* an exception propagating out of op *)
Raise(op, arg, exc) == [op |-> op, arg |-> arg, kind |-> exc, val |-> 0, den |-> 1, seq |-> <<>>]

(* the number val/den returned by op *)
Value(op, arg, val, den) == [op |-> op, arg |-> arg, kind |-> "num", val |-> val, den |-> den, seq |-> <<>>]

Bool(op, arg, b) == [op |-> op, arg |-> arg, kind |-> "bool", val |-> IF b THEN 1 ELSE 0, den |-> 1, seq |-> <<>>]

List(op, arg, s) == [op |-> op, arg |-> arg, kind |-> "list", val |-> 0, den |-> 1, seq |-> s]

Object(op, arg, kind) == [op |-> op, arg |-> arg, kind |-> kind, val |-> 0, den |-> 1, seq |-> <<>>]

Exceptions ==
    {"TypeError", "ValueError", "AttributeError", "ZeroDivisionError", "StopIteration"}

NoGen == [state |-> "none", max_explosions |-> 0, explosions |-> 0]

ThreadIdle == [pc |-> "idle", field |-> "none", v |-> 0, counts |-> <<>>]

(* ======================================================================= *)
(* Dice: construction and the count / faces setters                        *)
(* ======================================================================= *)

SetterInputs ==
    {PyInt(n) : n \in -1..MaxFaces} \cup {PyStr, PyNone, PyFloat(3)}

(* Dice.__init__: both setters succeeded, then the stale flag is cleared;  *)
(* no _stats_* attribute has been assigned yet                             *)
Init ==
    /\ count \in 1..MaxCount
    /\ faces \in 1..MaxFaces
    /\ is_stats_stale = FALSE
    /\ stats = NoStats
    /\ last = Idle
    /\ gen = NoGen
    /\ rd = ThreadIdle
    /\ wr = ThreadIdle

(* a setter that stores the value before it validates the range *)
count_setter_store_first(v) ==
    /\ last = Idle
    /\ IF v.type # "int"
       THEN /\ last' = Raise("count.setter", v, "TypeError")
            /\ UNCHANGED <<count, is_stats_stale>>
       ELSE /\ count' = v.v
            /\ is_stats_stale' = TRUE
            /\ last' = IF v.v < 1 THEN Raise("count.setter", v, "ValueError")
                       ELSE Object("count.setter", v, "None")
    /\ UNCHANGED <<faces, stats, gen, rd, wr>>

(* lines 29-45 *)
count_setter(v) ==
    /\ last = Idle
    /\ IF v.type # "int"
       THEN /\ last' = Raise("count.setter", v, "TypeError")
            /\ UNCHANGED <<count, is_stats_stale>>
       ELSE IF v.v < 1
       THEN /\ last' = Raise("count.setter", v, "ValueError")
            /\ UNCHANGED <<count, is_stats_stale>>
       ELSE /\ count' = v.v
            /\ is_stats_stale' = TRUE
            /\ last' = Object("count.setter", v, "None")
    /\ UNCHANGED <<faces, stats, gen, rd, wr>>

(* lines 56-72 *)
faces_setter(v) ==
    /\ last = Idle
    /\ IF v.type # "int"
       THEN /\ last' = Raise("faces.setter", v, "TypeError")
            /\ UNCHANGED <<faces, is_stats_stale>>
       ELSE IF v.v < 1
       THEN /\ last' = Raise("faces.setter", v, "ValueError")
            /\ UNCHANGED <<faces, is_stats_stale>>
       ELSE /\ faces' = v.v
            /\ is_stats_stale' = TRUE
            /\ last' = Object("faces.setter", v, "None")
    /\ UNCHANGED <<count, stats, gen, rd, wr>>

SetCount == \E v \in SetterInputs : (v.type = "int" => v.v <= MaxCount) /\ count_setter(v)

SetFaces == \E v \in SetterInputs : faces_setter(v)

(* ======================================================================= *)
(* Dice: the stats_* properties (lines 74-76 and 111-179)                  *)
(* ======================================================================= *)

(* stats_mean and stats_median are carried as twice their value *)
StatDen(name) == IF name \in {"stats_mean", "stats_median"} THEN 2 ELSE 1

(* the cache after _check_stats: recomputed exactly when the flag is set *)
_check_stats(st, stale, c, f) == IF stale THEN ComputeStats(c, f) ELSE st

(* self._check_stats(); return self._stats_<name> *)
stats_property(name) ==
    /\ last = Idle
    /\ stats' = _check_stats(stats, is_stats_stale, count, faces)
    /\ is_stats_stale' = FALSE
    /\ last' = IF StatField(stats', name) = Unset
               THEN Raise(name, PyNone, "AttributeError")
               ELSE Value(name, PyNone, StatField(stats', name), StatDen(name))
    /\ UNCHANGED <<count, faces, gen, rd, wr>>

ReadStat == \E name \in StatNames : stats_property(name)

(* ======================================================================= *)
(* Dice: rolling (lines 181-224).  random.randint(1, faces) is a free      *)
(* choice in 1..faces; each operator is the set of results it can return.  *)
(* ======================================================================= *)

RECURSIVE SumSeq(_)
SumSeq(s) == IF Len(s) = 0 THEN 0 ELSE s[1] + SumSeq(Tail(s))

(* a roll_one without the one-faced special case or lower bound *)
roll_one_from_zero(f) == 0..f

(* line 187 *)
roll_one(f) == IF f > 1 THEN 1..f ELSE {1}

(* line 198, consumed to the end: count draws, or count ones *)
roll_iter(c, f) ==
    IF f > 1 THEN [1..c -> roll_one(f)]
    ELSE {[i \in 1..c |-> 1]}

(* line 206 *)
roll_all(c, f) == IF f > 1 THEN {SumSeq(s) : s \in roll_iter(c, f)} ELSE {c}

(* lines 214-216 *)
roll(c, f) == IF c = 1 THEN roll_one(f) ELSE roll_all(c, f)

RollOne ==
    /\ last = Idle
    /\ \E r \in roll_one(faces) : last' = Value("roll_one", PyNone, r, 1)
    /\ UNCHANGED <<count, faces, is_stats_stale, stats, gen, rd, wr>>

RollIter ==
    /\ last = Idle
    /\ \E s \in roll_iter(count, faces) : last' = List("roll_iter", PyNone, s)
    /\ UNCHANGED <<count, faces, is_stats_stale, stats, gen, rd, wr>>

RollAll ==
    /\ last = Idle
    /\ \E r \in roll_all(count, faces) : last' = Value("roll_all", PyNone, r, 1)
    /\ UNCHANGED <<count, faces, is_stats_stale, stats, gen, rd, wr>>

Roll ==
    /\ last = Idle
    /\ \E r \in roll(count, faces) : last' = Value("roll", PyNone, r, 1)
    /\ UNCHANGED <<count, faces, is_stats_stale, stats, gen, rd, wr>>

(* lines 218-224: __call__ is roll() *)
Call ==
    /\ last = Idle
    /\ \E r \in roll(count, faces) : last' = Value("__call__", PyNone, r, 1)
    /\ UNCHANGED <<count, faces, is_stats_stale, stats, gen, rd, wr>>

(* ======================================================================= *)
(* Dice: operators (lines 226-310).  A number is num/den with den > 0; the *)
(* value NotImplemented is a number-shaped record tagged as such.          *)
(* ======================================================================= *)

Num(n, d) == [tag |-> "num", num |-> n, den |-> d]

NotImplemented == [tag |-> "NotImplemented", num |-> 0, den |-> 1]

(* lines 226-232; otherRoll is the outcome of other.roll() when it is made *)
_resolve(other, otherRoll) ==
    IF other.type = "int" THEN Num(other.v, 1)
    ELSE IF other.type = "float" THEN Num(other.v, 2)
    ELSE IF other.type = "Dice" THEN Num(otherRoll, 1)
    ELSE NotImplemented

ArithOps ==
    {"__add__", "__radd__", "__sub__", "__rsub__", "__mul__", "__rmul__",
     "__truediv__", "__rtruediv__", "__floordiv__", "__rfloordiv__"}

OrderOps == {"__lt__", "__le__", "__gt__", "__ge__"}

EqOps == {"__eq__", "__ne__"}

Operators == ArithOps \cup OrderOps \cup EqOps \cup {"roll_against"}

(* floor(a / b) for b # 0 *)
FloorDiv(a, b) == IF b > 0 THEN a \div b ELSE (0 - a) \div (0 - b)

(* Python's x <sym> y for numbers x, y *)
PyArith(op, arg, sym, x, y) ==
    CASE sym = "+"  -> Value(op, arg, x.num * y.den + y.num * x.den, x.den * y.den)
      [] sym = "-"  -> Value(op, arg, x.num * y.den - y.num * x.den, x.den * y.den)
      [] sym = "*"  -> Value(op, arg, x.num * y.num, x.den * y.den)
      [] sym = "/"  -> IF y.num = 0 THEN Raise(op, arg, "ZeroDivisionError")
                       ELSE IF y.num > 0
                       THEN Value(op, arg, x.num * y.den, x.den * y.num)
                       ELSE Value(op, arg, 0 - x.num * y.den, 0 - x.den * y.num)
      [] sym = "//" -> IF y.num = 0 THEN Raise(op, arg, "ZeroDivisionError")
                       ELSE Value(op, arg, FloorDiv(x.num * y.den, x.den * y.num), 1)

PyLess(x, y) == x.num * y.den < y.num * x.den

PyEqual(x, y) == x.num * y.den = y.num * x.den

PyCompare(sym, x, y) ==
    CASE sym = "<"  -> PyLess(x, y)
      [] sym = "<=" -> ~PyLess(y, x)
      [] sym = ">"  -> PyLess(y, x)
      [] sym = ">=" -> ~PyLess(x, y)
      [] sym = "==" -> PyEqual(x, y)

(* the interpreter's x <sym> y when x is the int/float of a roll or a       *)
(* resolved operand: against the NotImplemented object arithmetic and       *)
(* ordering have no implementation (TypeError), while == falls back to      *)
(* identity and is False                                                    *)
PyBinary(op, arg, sym, x, y) ==
    IF x.tag = "NotImplemented" \/ y.tag = "NotImplemented"
    THEN IF sym = "==" THEN Bool(op, arg, FALSE) ELSE Raise(op, arg, "TypeError")
    ELSE IF sym \in {"+", "-", "*", "/", "//"} THEN PyArith(op, arg, sym, x, y)
    ELSE Bool(op, arg, PyCompare(sym, x, y))

(* lines 292-298 *)
roll_against(arg, r, value) ==
    LET lt == PyBinary("roll_against", arg, "<", r, value)
        gt == PyBinary("roll_against", arg, ">", r, value)
    IN  IF lt.kind \in Exceptions THEN lt
        ELSE IF lt.val = 1 THEN Value("roll_against", arg, -1, 1)
        ELSE IF gt.kind \in Exceptions THEN gt
        ELSE IF gt.val = 1 THEN Value("roll_against", arg, 1, 1)
        ELSE Value("roll_against", arg, 0, 1)

(* lines 234-310: what op returns for self.roll() = r and _resolve(other) = o; *)
(* __ne__ is not defined by Dice, so != is the inverse of what __eq__ returns  *)
Operator(op, arg, r, o) ==
    CASE op \in {"__add__", "__radd__"} -> PyBinary(op, arg, "+", r, o)
      [] op = "__sub__"       -> PyBinary(op, arg, "-", r, o)
      [] op = "__rsub__"      -> PyBinary(op, arg, "-", o, r)
      [] op \in {"__mul__", "__rmul__"} -> PyBinary(op, arg, "*", r, o)
      [] op = "__truediv__"   -> PyBinary(op, arg, "/", r, o)
      [] op = "__rtruediv__"  -> PyBinary(op, arg, "/", o, r)
      [] op = "__floordiv__"  -> PyBinary(op, arg, "//", r, o)
      [] op = "__rfloordiv__" -> PyBinary(op, arg, "//", o, r)
      [] op = "__eq__"        -> PyBinary(op, arg, "==", r, o)
      [] op = "__ne__"        ->
            LET eq == PyBinary(op, arg, "==", r, o)
            IN  IF eq.kind = "bool" THEN Bool(op, arg, eq.val = 0) ELSE eq
      [] op = "__lt__"        -> PyBinary(op, arg, "<", r, o)
      [] op = "__le__"        -> PyBinary(op, arg, "<=", r, o)
      [] op = "__gt__"        -> PyBinary(op, arg, ">", r, o)
      [] op = "__ge__"        -> PyBinary(op, arg, ">=", r, o)
      [] op = "roll_against"  -> roll_against(arg, r, o)

(* operands: ints, the float 0.5, the die itself, and unsupported objects *)
Operands ==
    {PyInt(n) : n \in -1..MaxOperand} \cup {PyFloat(1), PySelf, PyStr, PyNone}

Unsupported(arg) == arg.type \notin {"int", "float", "Dice"}

Apply ==
    /\ last = Idle
    /\ \E op \in Operators, arg \in Operands, r \in roll(count, faces) :
         \E otherRoll \in (IF arg.type = "Dice" THEN roll(count, faces) ELSE {0}) :
            last' = Operator(op, arg, Num(r, 1), _resolve(arg, otherRoll))
    /\ UNCHANGED <<count, faces, is_stats_stale, stats, gen, rd, wr>>

(* ======================================================================= *)
(* DiceUtils: exploding rolls (lines 408-477)                              *)
(* ======================================================================= *)

(* the names an attribute lookup on a Dice instance resolves (lines 8-319) *)
DiceAttrs ==
    {"count", "faces", "_count", "_faces", "_is_stats_stale"} \cup StatNames
    \cup {"roll_one", "roll_iter", "roll_all", "roll", "matches", "roll_against"}

(* die.<name>: the value, or Unset when the lookup raises AttributeError *)
GetAttr(name) ==
    IF name \notin DiceAttrs THEN Unset
    ELSE CASE name \in {"count", "_count"} -> count
           [] name \in {"faces", "_faces"} -> faces
           [] OTHER -> 0

Limits == -1..MaxExplosions

(* lines 472-477: the rolls kept from the draws that random supplies *)
RECURSIVE ExplodeLoop(_, _, _, _)
ExplodeLoop(rolls, draws, f, max_explosions) ==
    IF (max_explosions < 0 \/ Len(rolls) < max_explosions) /\ Len(draws) > 0
    THEN IF Head(draws) < f THEN Append(rolls, Head(draws))
         ELSE ExplodeLoop(Append(rolls, Head(draws)), Tail(draws), f, max_explosions)
    ELSE rolls

(* lines 463-477 *)
roll_exploding_list(max_explosions) ==
    /\ last = Idle
    /\ LET arg == PyInt(max_explosions)
           sides == GetAttr("sides")
       IN  IF count # 1
           THEN last' = Raise("roll_exploding_list", arg, "ValueError")
           ELSE IF sides = Unset
           THEN last' = Raise("roll_exploding_list", arg, "AttributeError")
           ELSE IF sides = 1
           THEN last' = IF max_explosions < 0
                        THEN Object("roll_exploding_list", arg, "None")
                        ELSE List("roll_exploding_list", arg,
                                  [i \in 1..max_explosions |-> 1])
           ELSE \E draws \in [1..MaxExplosions -> roll_one(faces)] :
                   last' = List("roll_exploding_list", arg,
                                ExplodeLoop(<<>>, draws, faces, max_explosions))
    /\ UNCHANGED <<count, faces, is_stats_stale, stats, gen, rd, wr>>

RollExplodingList == \E n \in Limits : roll_exploding_list(n)

(* line 409: the function body holds yield, so the call runs none of it and *)
(* hands back a generator suspended before line 426                         *)
roll_exploding_iter(max_explosions) ==
    /\ last = Idle
    /\ gen.state = "none"
    /\ gen' = [state |-> "created", max_explosions |-> max_explosions, explosions |-> 0]
    /\ last' = Object("roll_exploding_iter", PyInt(max_explosions), "generator")
    /\ UNCHANGED <<count, faces, is_stats_stale, stats, rd, wr>>

RollExplodingIter == \E n \in Limits : roll_exploding_iter(n)

Closed(g) == [g EXCEPT !.state = "closed"]

(* lines 429-436 resumed at state st: one more 1, or the end *)
OnesStep(g, arg) ==
    IF g.max_explosions < 0 \/ g.explosions < g.max_explosions
    THEN <<[g EXCEPT !.state = "ones", !.explosions = IF g.max_explosions < 0 THEN 0 ELSE @ + 1],
           Value("next", arg, 1, 1)>>
    ELSE <<Closed(g), Raise("next", arg, "StopIteration")>>

(* lines 439-441 with the draw r: the next roll, or the end *)
LoopStep(g, arg, r) ==
    IF g.max_explosions < 0 \/ g.explosions < g.max_explosions
    THEN <<[g EXCEPT !.state = IF r < faces THEN "last_roll" ELSE "rolled",
                     !.explosions = IF g.max_explosions < 0 THEN 0 ELSE @ + 1],
           Value("next", arg, r, 1)>>
    ELSE <<Closed(g), Raise("next", arg, "StopIteration")>>

(* next(generator): the body runs from where it is suspended to its next    *)
(* yield, return or exception; r is the draw of die() if one is made        *)
GenNext(g, r) ==
    LET arg == PyInt(g.max_explosions)
        sides == GetAttr("sides")
    IN  CASE g.state = "created" ->
               IF count # 1 THEN <<Closed(g), Raise("next", arg, "ValueError")>>
               ELSE IF sides = Unset THEN <<Closed(g), Raise("next", arg, "AttributeError")>>
               ELSE IF sides = 1 THEN OnesStep(g, arg)
               ELSE LoopStep(g, arg, r)
          [] g.state = "ones" -> OnesStep(g, arg)
          [] g.state = "rolled" -> LoopStep(g, arg, r)
          [] g.state \in {"last_roll", "closed"} ->
               <<Closed(g), Raise("next", arg, "StopIteration")>>

NextExploding ==
    /\ last = Idle
    /\ gen.state \notin {"none", "closed"}
    /\ \E r \in roll(count, faces) :
          /\ gen' = GenNext(gen, r)[1]
          /\ last' = GenNext(gen, r)[2]
    /\ UNCHANGED <<count, faces, is_stats_stale, stats, rd, wr>>

(* the caller drops the generator *)
DropGenerator ==
    /\ last = Idle
    /\ gen.state = "closed"
    /\ gen' = NoGen
    /\ UNCHANGED <<count, faces, is_stats_stale, stats, last, rd, wr>>

(* ======================================================================= *)
(* DiceUtils.roll_percentile (lines 479-483)                               *)
(* ======================================================================= *)

(* random.randrange(0, 10) *)
UnitsDraws == 0..9

(* random.randrange(0, 100, 10) *)
TensDraws == {10 * k : k \in 0..9}

(* a percentile roll without the remap of 0 *)
percentile_no_remap(tens, units) == units + tens

(* lines 482-483 *)
percentile(tens, units) ==
    LET result == units + tens
    IN  IF result = 0 THEN 100 ELSE result

RollPercentile ==
    /\ last = Idle
    /\ \E units \in UnitsDraws, tens \in TensDraws :
          last' = [Value("roll_percentile", PyNone, percentile(tens, units), 1)
                      EXCEPT !.seq = <<tens, units>>]
    /\ UNCHANGED <<count, faces, is_stats_stale, stats, gen, rd, wr>>

(* the caller takes the result of the finished call *)
Return ==
    /\ last # Idle
    /\ last' = Idle
    /\ UNCHANGED <<count, faces, is_stats_stale, stats, gen, rd, wr>>

(* ---- a Dice used by one caller ---- *)
Next ==
    \/ SetCount \/ SetFaces \/ ReadStat
    \/ RollOne \/ RollIter \/ RollAll \/ Roll \/ Call
    \/ Apply
    \/ Return

Spec == Init /\ [][Next]_vars

(* ---- the DiceUtils helpers on a Dice its caller may also reassign ---- *)
NextUtils ==
    \/ SetCount \/ SetFaces
    \/ RollExplodingList \/ RollExplodingIter \/ NextExploding \/ DropGenerator
    \/ RollPercentile
    \/ Return

SpecUtils == Init /\ [][NextUtils]_vars

(* ======================================================================= *)
(* One Dice shared by two threads: a writer assigning count or faces and a *)
(* reader reading a stats_* property.  Nothing in the source takes a lock, *)
(* so the threads interleave between statements.                           *)
(* ======================================================================= *)

SharedInputs ==
    {PyInt(n) : n \in 0..MaxSharedFaces} \cup {PyStr}

InitThreads ==
    /\ count \in 1..MaxSharedCount
    /\ faces \in 1..MaxSharedFaces
    /\ is_stats_stale = FALSE
    /\ stats = NoStats
    /\ last = Idle
    /\ gen = NoGen
    /\ rd = ThreadIdle
    /\ wr = ThreadIdle

(* lines 40-43 / 67-70: validation touches no shared state; a rejected      *)
(* value raises and leaves the writer where it was                          *)
W_Call ==
    /\ wr.pc = "idle"
    /\ \E field \in {"count", "faces"}, v \in SharedInputs :
          /\ field = "count" /\ v.type = "int" => v.v <= MaxSharedCount
          /\ wr' = IF v.type = "int" /\ v.v >= 1
                   THEN [wr EXCEPT !.pc = "assign", !.field = field, !.v = v.v]
                   ELSE wr
    /\ UNCHANGED <<count, faces, is_stats_stale, stats, last, gen, rd>>

(* line 44 / line 71 *)
W_Assign ==
    /\ wr.pc = "assign"
    /\ count' = IF wr.field = "count" THEN wr.v ELSE count
    /\ faces' = IF wr.field = "faces" THEN wr.v ELSE faces
    /\ wr' = [wr EXCEPT !.pc = "flag"]
    /\ UNCHANGED <<is_stats_stale, stats, last, gen, rd>>

(* line 45 / line 72 *)
W_Flag ==
    /\ wr.pc = "flag"
    /\ is_stats_stale' = TRUE
    /\ wr' = ThreadIdle
    /\ UNCHANGED <<count, faces, stats, last, gen, rd>>

(* a stats_* property is entered; line 75 *)
R_Check ==
    /\ rd.pc = "idle"
    /\ rd' = [rd EXCEPT !.pc = IF is_stats_stale THEN "l79" ELSE "return"]
    /\ UNCHANGED <<count, faces, is_stats_stale, stats, last, gen, wr>>

(* line 79 *)
R_l79 ==
    /\ rd.pc = "l79"
    /\ stats' = [stats EXCEPT !.stats_min = count]
    /\ rd' = [rd EXCEPT !.pc = "l80"]
    /\ UNCHANGED <<count, faces, is_stats_stale, last, gen, wr>>

(* line 80 *)
R_l80 ==
    /\ rd.pc = "l80"
    /\ stats' = [stats EXCEPT !.stats_max = faces * count]
    /\ rd' = [rd EXCEPT !.pc = "l81"]
    /\ UNCHANGED <<count, faces, is_stats_stale, last, gen, wr>>

(* lines 81-83: they read and write only attributes the writer never touches *)
R_l81 ==
    /\ rd.pc = "l81"
    /\ stats' = [stats EXCEPT !.stats_range = stats.stats_max - stats.stats_min,
                              !.stats_mid = (stats.stats_min + stats.stats_max) \div 2,
                              !.stats_mean = stats.stats_min + stats.stats_max]
    /\ rd' = [rd EXCEPT !.pc = "l85"]
    /\ UNCHANGED <<count, faces, is_stats_stale, last, gen, wr>>

(* lines 85-91, into the local counts *)
R_l85 ==
    /\ rd.pc = "l85"
    /\ rd' = [rd EXCEPT !.pc = "l93", !.counts = Distribution(count, faces)]
    /\ UNCHANGED <<count, faces, is_stats_stale, stats, last, gen, wr>>

(* lines 93-107: mode and median, from the local counts only *)
R_l93 ==
    /\ rd.pc = "l93"
    /\ stats' = [stats EXCEPT !.stats_mode = Mode(rd.counts),
                              !.stats_median = Median2(rd.counts)]
    /\ rd' = [rd EXCEPT !.pc = "l109", !.counts = <<>>]
    /\ UNCHANGED <<count, faces, is_stats_stale, last, gen, wr>>

(* line 109 *)
R_l109 ==
    /\ rd.pc = "l109"
    /\ is_stats_stale' = FALSE
    /\ rd' = [rd EXCEPT !.pc = "return"]
    /\ UNCHANGED <<count, faces, stats, last, gen, wr>>

(* return self._stats_<name>: the value read, Unset for an AttributeError *)
R_Return ==
    /\ rd.pc = "return"
    /\ \E name \in StatNames :
          rd' = [rd EXCEPT !.pc = "done", !.field = name, !.v = StatField(stats, name)]
    /\ UNCHANGED <<count, faces, is_stats_stale, stats, last, gen, wr>>

(* the reading thread takes the value *)
R_Done ==
    /\ rd.pc = "done"
    /\ rd' = ThreadIdle
    /\ UNCHANGED <<count, faces, is_stats_stale, stats, last, gen, wr>>

NextThreads ==
    \/ W_Call \/ W_Assign \/ W_Flag
    \/ R_Check \/ R_l79 \/ R_l80 \/ R_l81 \/ R_l85 \/ R_l93 \/ R_l109
    \/ R_Return \/ R_Done

SpecThreads == InitThreads /\ [][NextThreads]_vars

(* ======================================================================= *)
(* Properties                                                              *)
(* ======================================================================= *)

SetterOps == {"count.setter", "faces.setter"}

RollOps == {"roll", "roll_all", "__call__"}

(* C1: a read of stats_min, stats_max or stats_range, on a fresh Dice or    *)
(* after any assignments and reads, returns count, faces*count and          *)
(* faces*count - count for the current count and faces; it never fails.     *)
C1_StatsReadCurrent ==
    last.op \in {"stats_min", "stats_max", "stats_range"} =>
        /\ last.kind = "num"
        /\ last.den = 1
        /\ last.op = "stats_min" => last.val = count
        /\ last.op = "stats_max" => last.val = faces * count
        /\ last.op = "stats_range" => last.val = faces * count - count

(* C2: a count or faces assignment of a non-integer raises TypeError, of an *)
(* integer below 1 raises ValueError, a rejected assignment leaves count,   *)
(* faces, the stale flag and the cached statistics as they were, and        *)
(* count >= 1 and faces >= 1 hold in every state.                           *)
C2_RejectedSetterChangesNothing ==
    /\ [](count >= 1 /\ faces >= 1)
    /\ [][ (last = Idle /\ last'.op \in SetterOps) =>
              /\ last'.arg.type # "int" => last'.kind = "TypeError"
              /\ (last'.arg.type = "int" /\ last'.arg.v < 1) => last'.kind = "ValueError"
              /\ (last'.arg.type = "int" /\ last'.arg.v >= 1) => last'.kind = "None"
              /\ last'.kind \in Exceptions =>
                    UNCHANGED <<count, faces, is_stats_stale, stats>> ]_vars

(* a rejected assignment to a Dice whose statistics are cached and fresh *)
C2_Witness ==
    /\ last.op = "count.setter"
    /\ last.kind = "ValueError"
    /\ stats # NoStats
    /\ ~is_stats_stale

(* the faces^count equally likely outcomes of the pool, and their totals *)
Outcomes(c, f) == [1..c -> 1..f]

(* the element of rank k (from 0) of the sorted multiset of totals *)
KthTotal(c, f, k) ==
    CHOOSE v \in c..(c * f) :
        /\ Cardinality({o \in Outcomes(c, f) : SumSeq(o) < v}) <= k
        /\ k < Cardinality({o \in Outcomes(c, f) : SumSeq(o) <= v})

(* twice the median of the multiset of totals *)
MultisetMedian2(c, f) ==
    LET N == Cardinality(Outcomes(c, f))
    IN  IF N % 2 = 1 THEN 2 * KthTotal(c, f, N \div 2)
        ELSE KthTotal(c, f, N \div 2 - 1) + KthTotal(c, f, N \div 2)

(* C3: the stats_median a read returns is the median of the sorted multiset *)
(* of all faces^count totals (the middle element, or the average of the two *)
(* middle elements); for faces = 6, count = 2 it is 7.0.                    *)
C3_MedianIsMultisetMedian ==
    (last.op = "stats_median" /\ last.kind = "num") =>
        /\ last.den = 2
        /\ last.val = MultisetMedian2(count, faces)
        /\ (faces = 6 /\ count = 2) => last.val = 7 * last.den

C3_Witness ==
    /\ last.op = "stats_median"
    /\ last.kind = "num"
    /\ faces = 6
    /\ count = 2
    /\ last.val = 14

(* C4 as stated: with faces = 1 every roll returns count, every roll_iter   *)
(* element is 1, and every statistic returned, stats_range included, is     *)
(* count.                                                                   *)
C4_AllStatsCollapseToCount ==
    faces = 1 =>
        /\ last.op \in RollOps => last.val = count
        /\ last.op = "roll_iter" => \A i \in DOMAIN last.seq : last.seq[i] = 1
        /\ (last.op \in StatNames /\ last.kind = "num") => last.val = count * last.den

(* C4 amended: with faces = 1 every roll returns count, roll_iter yields    *)
(* count ones, and every statistic returned is count, except stats_range,   *)
(* which is 0.                                                              *)
C4_OneFaced ==
    faces = 1 =>
        /\ last.op \in RollOps => (last.kind = "num" /\ last.val = count /\ last.den = 1)
        /\ last.op = "roll_iter" =>
              /\ last.kind = "list"
              /\ Len(last.seq) = count
              /\ \A i \in DOMAIN last.seq : last.seq[i] = 1
        /\ (last.op \in StatNames /\ last.kind = "num") =>
              last.val = IF last.op = "stats_range" THEN 0 ELSE count * last.den

C4_Witness ==
    /\ faces = 1
    /\ count = 2
    /\ last.op = "stats_range"
    /\ last.kind = "num"
    /\ last.val = 0

(* C5: roll_exploding_list(die, n) on a single die with faces >= 2 and      *)
(* n >= 0 returns a list of length <= n of values in 1..faces, all but the  *)
(* last equal to faces, shorter than n only when its last roll is below     *)
(* faces, and never continuing past a roll below faces.                     *)
C5_ExplodingListShape ==
    (last.op = "roll_exploding_list" /\ count = 1 /\ faces >= 2 /\ last.arg.v >= 0) =>
        /\ last.kind = "list"
        /\ Len(last.seq) <= last.arg.v
        /\ \A i \in DOMAIN last.seq : last.seq[i] \in 1..faces
        /\ \A i \in DOMAIN last.seq : i < Len(last.seq) => last.seq[i] = faces
        /\ Len(last.seq) < last.arg.v =>
              (Len(last.seq) > 0 /\ last.seq[Len(last.seq)] < faces)

(* C6: roll_exploding_list(die) and roll_exploding_iter(die) on a Dice with *)
(* count # 1 both end in the pool-size ValueError at the call itself.       *)
C6_PoolRejectedAtCall ==
    (last.op \in {"roll_exploding_list", "roll_exploding_iter"} /\ count # 1) =>
        last.kind = "ValueError"

(* C7: with max_explosions < 0 on a one-sided single die,                   *)
(* roll_exploding_list returns None and each next() of roll_exploding_iter  *)
(* yields 1; no error is raised.                                            *)
C7_OneSidedUnlimited ==
    (count = 1 /\ faces = 1 /\ last.arg.type = "int" /\ last.arg.v < 0) =>
        /\ last.op = "roll_exploding_list" => last.kind = "None"
        /\ last.op = "roll_exploding_iter" => last.kind = "generator"
        /\ last.op = "next" => (last.kind = "num" /\ last.val = 1 /\ last.den = 1)

(* C8: every arithmetic or comparison operator, and roll_against, applied   *)
(* to an operand that is neither a number nor a Dice ends in TypeError.     *)
C8_UnsupportedOperandRaises ==
    (last.op \in Operators /\ Unsupported(last.arg)) => last.kind = "TypeError"

(* C9: roll_percentile returns units + tens, with 0 returned as 100; the    *)
(* result is in 1..100 and no other pair of draws gives the same result.    *)
C9_Percentile ==
    last.op = "roll_percentile" =>
        LET tens == last.seq[1]
            units == last.seq[2]
        IN  /\ last.kind = "num"
            /\ last.den = 1
            /\ last.val = IF tens = 0 /\ units = 0 THEN 100 ELSE units + tens
            /\ last.val \in 1..100
            /\ \A t \in TensDraws, u \in UnitsDraws :
                  percentile(t, u) = last.val => (t = tens /\ u = units)

C9_Witness ==
    /\ last.op = "roll_percentile"
    /\ last.seq = <<0, 0>>
    /\ last.val = 100

(* C10: with one thread assigning and another reading, whenever the stale   *)
(* flag is clear, the statistics have been computed and neither thread is   *)
(* inside a call, the cached statistics are those of the current count and  *)
(* faces, so that no later read returns outdated or mixed statistics.       *)
C10_CacheMatchesFields ==
    (~is_stats_stale /\ stats # NoStats /\ wr.pc = "idle" /\ rd.pc = "idle") =>
        stats = ComputeStats(count, faces)

====
